---- MODULE Spec2Model ----
(***************************************************************************)
(* Model of redcaps/downloaders/image_downloader.py: ImageDownloader.      *)
(* One object holds crop_resize; download(url, save_to) fetches, checks,   *)
(* decodes, resizes and crops, creates the parent directory and saves.     *)
(* The network and the filesystem are the environment of the program.      *)
(***************************************************************************)
EXTENDS Integers, Sequences, FiniteSets, TLC

VARIABLES
  crop_resize,   \* self.crop_resize
  threads,       \* the threads of the driver that call download
  web,           \* what the remote hosts answer: exchanges (url, answer)
  pillowCleans,  \* whether Image.save removes a file it created when it fails
  fs,            \* the filesystem: path -> entry
  fs0,           \* the filesystem before any call
  pc,            \* per thread: position in download
  url,           \* per thread: argument url
  save_to,       \* per thread: argument save_to
  response,      \* per thread: local response
  pil_image,     \* per thread: local pil_image
  geom,          \* per thread: new_width, new_height, new_left .. new_bottom
  mk,            \* per thread: os.makedirs, length of the prefix at hand
  mkerr,         \* per thread: os.makedirs, the error os.mkdir has raised
  created,       \* per thread: Image.save, whether the file was absent
  exc,           \* per thread: the exception raised inside the try block
  ret            \* per thread: the value returned (when pc = "done")

vars == <<crop_resize, threads, web, pillowCleans, fs, fs0, pc, url, save_to,
          response, pil_image, geom, mk, mkerr, created, exc, ret>>

----------------------------------------------------------------------------
(* Bounds of the model *)
MaxDim == 2       \* decoded images have sides 1..MaxDim (and the sizes below)
MaxTarget == 2    \* crop_resize ranges over -1..MaxTarget (and the sizes below)
MaxDepth == 3     \* save_to has at most MaxDepth components

Procs == {1, 2}

----------------------------------------------------------------------------
(* Integer helpers *)
Min(a, b) == IF a <= b THEN a ELSE b
Max(a, b) == IF a >= b THEN a ELSE b
Abs(a) == IF a >= 0 THEN a ELSE -a

RECURSIVE Pow2(_)
Pow2(k) == IF k <= 0 THEN 1 ELSE 2 * Pow2(k - 1)

\* 2^p mod m, by p doublings
RECURSIVE PowMod2(_, _)
PowMod2(p, m) == IF p <= 0 THEN 1 % m ELSE (2 * PowMod2(p - 1, m)) % m

\* the exponent a with 2^a <= n/m < 2^(a+1), for n, m >= 1
RECURSIVE Log2Up(_, _, _)
Log2Up(n, m, a) == IF m * Pow2(a + 1) <= n THEN Log2Up(n, m, a + 1) ELSE a
RECURSIVE Log2Down(_, _, _)
Log2Down(n, m, b) == IF n * Pow2(b) < m THEN Log2Down(n, m, b + 1) ELSE b
FloorLog2(n, m) == IF n >= m THEN Log2Up(n, m, 0) ELSE -Log2Down(n, m, 0)

\* int(x) of the quotient a / b in Python: truncation toward zero
IntTrunc(a, b) == IF a >= 0 THEN a \div b ELSE -((-a) \div b)

\* round() of Python on the exact quotient n / m: ties go to the even integer
RoundHalfEven(n, m) ==
  LET q == n \div m
      r == n % m
  IN IF 2 * r < m THEN q
     ELSE IF 2 * r > m THEN q + 1
     ELSE IF q % 2 = 0 THEN q ELSE q + 1

\* round half up on the exact quotient n / m
RoundHalfUp(n, m) ==
  LET q == n \div m
      r == n % m
  IN IF 2 * r >= m THEN q + 1 ELSE q

----------------------------------------------------------------------------
(* IEEE double arithmetic of lines 59-63.                                  *)
(* scale = crop_resize / float(m) is the double nearest to T/m; its error  *)
(* is e / (m * 2^p) with p = 52 - FloorLog2(T, m) and e the signed         *)
(* remainder of T * 2^p by m.                                              *)
ScaleError(T, m) ==
  LET p  == 52 - FloorLog2(T, m)
      rr == (T * PowMod2(p, m)) % m
  IN IF rr = 0 THEN 0 ELSE IF 2 * rr < m THEN -rr ELSE m - rr

(* int(round(d * scale)). When d*T/m is not halfway between two integers   *)
(* the double product rounds as the exact quotient does. When it is        *)
(* halfway, q + 1/2, the product d * scale stays at q + 1/2 only if the    *)
(* error d*e/(m*2^p) is within half a unit in the last place of q + 1/2;   *)
(* otherwise it falls on the side of the error of scale.                   *)
RoundScaled(d, T, m) ==
  LET n == d * T
      q == n \div m
      r == n % m
  IN IF 2 * r # m THEN RoundHalfEven(n, m)
     ELSE LET a  == FloorLog2(T, m)
              e  == ScaleError(T, m)
              j  == FloorLog2(2 * q + 1, 2)
          IN IF Abs(d * e) <= m * Pow2(j - a - 1)
             THEN (IF q % 2 = 0 THEN q ELSE q + 1)
             ELSE (IF e > 0 THEN q + 1 ELSE q)

----------------------------------------------------------------------------
(* Strings are sequences of characters; a path is its sequence of          *)
(* components, a component the pair <<stem, extension>>.                   *)
Removed == <<"r", "e", "m", "o", "v", "e", "d">>
Png == <<".", "p", "n", "g">>
Sentinel == Removed \o Png          \* "removed.png", line 48
Host == <<"i", "/">>

\* sub in s (Python's substring test)
Contains(sub, s) ==
  \E i \in 1..(Len(s) - Len(sub) + 1) : SubSeq(s, i, i + Len(sub) - 1) = sub

Urls == { Host \o <<"a">> \o Png,                 \* i/a.png
          Host \o Removed \o <<".", "j", "p", "g">>, \* i/removed.jpg
          Host \o Sentinel \o <<"?">> }           \* i/removed.png?
RedirectTarget == Host \o Sentinel                \* i/removed.png

DirNames == { <<"d", ".jpg">> }
FileNames == { <<"d", ".jpg">>, <<"m", ".xbm">>, <<"raw", "">> }

RECURSIVE DirSeqs(_)
DirSeqs(n) ==
  IF n <= 0 THEN { <<>> }
  ELSE LET shorter == DirSeqs(n - 1)
       IN shorter \cup { Append(s, d) : s \in shorter, d \in DirNames }

Paths == { Append(s, f) : s \in DirSeqs(MaxDepth - 1), f \in FileNames }

Front(s) == SubSeq(s, 1, Len(s) - 1)
Last(s) == s[Len(s)]
Prefix(s, k) == SubSeq(s, 1, k)

\* os.path.dirname(save_to): the path without its last component ("" if none)
Dirname(path) == Front(path)
\* the extension Image.save reads off the file name
Ext(path) == Last(path)[2]

----------------------------------------------------------------------------
(* Images, responses and filesystem entries *)
NoImage == [w |-> 0, h |-> 0, mode |-> "none"]
Corrupt == [w |-> 0, h |-> 0, mode |-> "corrupt"]
Modes == {"RGB", "RGBA"}

SpecialDims == { <<800, 600>>, <<400, 600>>, <<45, 20>> }
SpecialTargets == { 14, 512 }
Dims == ((1..MaxDim) \X (1..MaxDim)) \cup SpecialDims
Images == { [w |-> d[1], h |-> d[2], mode |-> m] : d \in Dims, m \in Modes }
TargetSizes == ((-1)..MaxTarget) \cup SpecialTargets

NoResponse == [status_code |-> 0, url |-> <<>>, content |-> NoImage]

\* The answers of the hosts to a request of u: no answer, a 404 page, the
\* placeholder of a removed image (200, redirected), or 200 with some body.
Answers(u, bodies) ==
  { [url |-> u, ok |-> FALSE, response |-> NoResponse] }
  \cup { [url |-> u, ok |-> TRUE,
          response |-> [status_code |-> 404, url |-> u, content |-> Corrupt]] }
  \cup { [url |-> u, ok |-> TRUE,
          response |-> [status_code |-> 200, url |-> RedirectTarget,
                        content |-> [w |-> 1, h |-> 1, mode |-> "RGB"]]] }
  \cup { [url |-> u, ok |-> TRUE,
          response |-> [status_code |-> 200, url |-> u, content |-> b]] :
         b \in bodies }

AbsentE == [kind |-> "absent", w |-> 0, h |-> 0, mode |-> "none"]
DirE == [kind |-> "dir", w |-> 0, h |-> 0, mode |-> "none"]
EmptyFile == [kind |-> "file", w |-> 0, h |-> 0, mode |-> "none"]
OldFile == [kind |-> "file", w |-> 1, h |-> 1, mode |-> "L"]
FileOf(img) == [kind |-> "file", w |-> img.w, h |-> img.h, mode |-> img.mode]

EmptyFs == [p \in Paths |-> AbsentE]
\* a working directory that holds d.jpg/ with two older files in it
UsedFs ==
  [p \in Paths |->
     IF p = << <<"d", ".jpg">> >> THEN DirE
     ELSE IF Len(p) = 2 /\ p[1] = <<"d", ".jpg">> /\ p[2] \in {<<"d", ".jpg">>, <<"m", ".xbm">>}
          THEN OldFile
          ELSE AbsentE]

\* the empty path is the working directory
IsDir(f, path) == path = <<>> \/ f[path].kind = "dir"
Exists(f, path) == path = <<>> \/ f[path].kind # "absent"

----------------------------------------------------------------------------
(* download, lines 44-52: the checks on the response and the decoding *)

\* line 48 without the test of the url
RejectedStatusOnly(r) == r.status_code # 200
\* line 48 with "and" for "or"
RejectedBoth(r) == r.status_code # 200 /\ Contains(Sentinel, r.url)

\* line 48: response.status_code != 200 or "removed.png" in response.url
Rejected(r) == r.status_code # 200 \/ Contains(Sentinel, r.url)

\* line 52: Image.open(...) fails on bytes that are no image
Decodable(body) == body.mode \notin {"none", "corrupt"}
\* line 52: .convert("RGB") keeps the size and sets the mode
Convert(img, mode) == [img EXCEPT !.mode = mode]

----------------------------------------------------------------------------
(* download, lines 56-76: resize and crop *)

\* line 56 with ">=" for ">"
ShouldResizeNonNegative(T) == T >= 0

\* line 56
ShouldResize(T) == T > 0

\* line 59 with max for min
ScaleEdgeMax(w, h) == Max(w, h)

\* line 59: the edge the scale is taken from
ScaleEdge(w, h) == Min(w, h)

\* lines 61-63: int(round(d * scale)) with scale = T / float(ScaleEdge(w, h))
NewSize(w, h, T) ==
  << RoundScaled(w, T, ScaleEdge(w, h)), RoundScaled(h, T, ScaleEdge(w, h)) >>

\* lines 64-73 with the whole resized image as the box
CropBoxFull(nw, nh, T) == << 0, 0, nw, nh >>
\* lines 65 and 71 without the division by two
CropBoxNoHalf(nw, nh, T) ==
  IF nw >= nh
  THEN << nw - T, 0, (nw - T) + T, T >>
  ELSE << 0, nh - T, T, (nh - T) + T >>

\* lines 64-73: new_left, new_top, new_right, new_bottom
CropBox(nw, nh, T) ==
  IF nw >= nh
  THEN LET new_left == IntTrunc(nw - T, 2)
       IN << new_left, 0, new_left + T, T >>
  ELSE LET new_top == IntTrunc(nh - T, 2)
       IN << 0, new_top, T, new_top + T >>

\* new_width .. new_bottom are unassigned until line 61
NoGeom == [new_width |-> 0, new_height |-> 0, box |-> <<>>]
Geometry(w, h, T) ==
  LET ns == NewSize(w, h, T)
  IN [new_width |-> ns[1], new_height |-> ns[2], box |-> CropBox(ns[1], ns[2], T)]

\* line 74: Image.resize refuses a size that is not positive and Image.crop
\* a box whose right or bottom is below its left or top
ResizeFails(g) ==
  \/ g.new_width <= 0 \/ g.new_height <= 0
  \/ g.box[3] < g.box[1] \/ g.box[4] < g.box[2]

\* lines 74-76: resize((new_width, new_height)).crop(box); the result has the
\* size of the box
Cropped(img, g) ==
  [img EXCEPT !.w = g.box[3] - g.box[1], !.h = g.box[4] - g.box[2]]

----------------------------------------------------------------------------
(* download, line 79: os.makedirs(os.path.dirname(save_to), exist_ok=True) *)

\* The system walks the directories of a path from the first: the first
\* that is no directory fails the call, with ENOENT if nothing is there and
\* ENOTDIR if a file is ("none" when all are directories).
ResolveError(f, dir) ==
  LET bad == { k \in 1..Len(dir) : f[Prefix(dir, k)].kind # "dir" }
  IN IF bad = {} THEN "none"
     ELSE LET k0 == CHOOSE k \in bad : \A j \in bad : k <= j
          IN IF f[Prefix(dir, k0)].kind = "absent"
             THEN "FileNotFoundError"
             ELSE "NotADirectoryError"

\* os.mkdir(name): the error it raises ("none" when it creates the directory)
MkdirError(f, name) ==
  IF name = <<>> THEN "FileNotFoundError"
  ELSE IF ResolveError(f, Front(name)) # "none" THEN ResolveError(f, Front(name))
  ELSE IF Exists(f, name) THEN "FileExistsError"
  ELSE "none"

\* os.makedirs without exist_ok=True: no error of mkdir is passed over
ToleratedNever(f, name) == FALSE

\* os.makedirs, "except OSError: if not exist_ok or not path.isdir(name):
\* raise": with exist_ok=True the error of mkdir is passed over when name is
\* a directory (os.path.isdir("") is False)
Tolerated(f, name) == name # <<>> /\ IsDir(f, name)

\* one os.mkdir inside os.makedirs and the handling of its error, run without
\* interruption
MkdirStep(f, name) ==
  LET e == MkdirError(f, name)
  IN IF e = "none" THEN [err |-> "none", fs |-> [f EXCEPT ![name] = DirE]]
     ELSE IF Tolerated(f, name) THEN [err |-> "none", fs |-> f]
     ELSE [err |-> e, fs |-> f]

\* the recursive call of makedirs for the head is wrapped in
\* "except FileExistsError: pass"; the call of download is not
Swallowed(err, k, n) == err = "FileExistsError" /\ k < n

\* os.makedirs(name, exist_ok=True) run without interruption
RECURSIVE Makedirs(_, _)
Makedirs(f, name) ==
  LET r1 == IF Len(name) > 1 /\ ~Exists(f, Front(name))
            THEN Makedirs(f, Front(name))
            ELSE [err |-> "none", fs |-> f]
  IN IF r1.err \notin {"none", "FileExistsError"} THEN r1
     ELSE MkdirStep(r1.fs, name)

----------------------------------------------------------------------------
(* download, line 80: pil_image.save(save_to) *)

\* the format Image.save takes from the extension ("" if it knows none)
Format(ext) ==
  IF ext = ".jpg" THEN "JPEG" ELSE IF ext = ".xbm" THEN "XBM" ELSE ""

\* the modes the encoder of a format writes
Encodes(format, mode) ==
  IF format = "JPEG" THEN mode \in {"RGB", "L", "CMYK"}
  ELSE IF format = "XBM" THEN mode = "1"
  ELSE FALSE

\* open(filename, "w+b"): the error it raises ("none" when it opens the file)
OpenError(f, path) ==
  IF ResolveError(f, Front(path)) # "none" THEN ResolveError(f, Front(path))
  ELSE IF IsDir(f, path) THEN "IsADirectoryError"
  ELSE "none"

\* os.remove(filename): the error it raises ("none" when it removes the file)
RemoveError(f, path) ==
  IF ResolveError(f, Front(path)) # "none" THEN ResolveError(f, Front(path))
  ELSE IF IsDir(f, path) THEN "IsADirectoryError"
  ELSE IF ~Exists(f, path) THEN "FileNotFoundError"
  ELSE "none"

\* the file after an encoder failed: removed if Image.save created it and
\* this Pillow cleans up, else left as opened (empty)
AfterFailedWrite(f, path, wasCreated, cleans) ==
  IF cleans /\ wasCreated /\ f[path].kind = "file"
  THEN [f EXCEPT ![path] = AbsentE]
  ELSE f

\* Image.save(save_to) run without interruption
Save(f, path, img, cleans) ==
  IF Format(Ext(path)) = "" THEN [err |-> "ValueError", fs |-> f]
  ELSE IF OpenError(f, path) # "none" THEN [err |-> OpenError(f, path), fs |-> f]
  ELSE IF ~Encodes(Format(Ext(path)), img.mode)
       THEN [err |-> "OSError",
             fs |-> AfterFailedWrite([f EXCEPT ![path] = EmptyFile], path,
                                     ~Exists(f, path), cleans)]
  ELSE [err |-> "none", fs |-> [f EXCEPT ![path] = FileOf(img)]]

----------------------------------------------------------------------------
(* download, lines 82-85 *)

\* line 82 returning False
SuccessValueFalse == FALSE

\* line 82
SuccessValue == TRUE

\* the exceptions of the model that are no OSError
NonOSErrors == {"ValueError"}

\* line 84 as "except OSError"
CatchesOSError(e) == e # "none" /\ e \notin NonOSErrors

\* line 84: "except Exception" takes every exception the steps raise
Catches(e) == e # "none"

----------------------------------------------------------------------------
(* The state after construction (line 27) and before any call *)

TypeOK ==
  /\ crop_resize \in Int
  /\ threads \subseteq Procs
  /\ pillowCleans \in BOOLEAN
  /\ \A p \in Procs : pc[p] \in {"idle", "get", "check", "open", "resize",
        "makedirs", "mkdir", "isdir", "save", "save_open", "save_write",
        "save_remove", "return",
        "except", "done", "raised"}

Idle ==
  /\ pc = [p \in Procs |-> "idle"]
  /\ url = [p \in Procs |-> <<>>]
  /\ save_to = [p \in Procs |-> <<>>]
  /\ response = [p \in Procs |-> NoResponse]
  /\ pil_image = [p \in Procs |-> NoImage]
  /\ geom = [p \in Procs |-> NoGeom]
  /\ mk = [p \in Procs |-> 0]
  /\ mkerr = [p \in Procs |-> "none"]
  /\ created = [p \in Procs |-> FALSE]
  /\ exc = [p \in Procs |-> "none"]
  /\ ret = [p \in Procs |-> FALSE]

\* one caller; the hosts serve every image of the model
Init ==
  /\ crop_resize \in TargetSizes
  /\ threads = {1}
  /\ web = UNION { Answers(u, {Corrupt} \cup Images) : u \in Urls }
  /\ pillowCleans \in BOOLEAN
  /\ fs0 \in {EmptyFs, UsedFs}
  /\ fs = fs0
  /\ Idle

\* two callers of the same object; the hosts serve one image
ConcTargetSizes == {-1, 1}
ConcUrls == { Host \o <<"a">> \o Png }
ConcImages == { [w |-> 2, h |-> 1, mode |-> "RGBA"] }
InitConc ==
  /\ crop_resize \in ConcTargetSizes
  /\ threads = Procs
  /\ web = UNION { Answers(u, ConcImages) : u \in ConcUrls }
  /\ pillowCleans \in BOOLEAN
  /\ fs0 \in {EmptyFs, UsedFs}
  /\ fs = fs0
  /\ Idle

----------------------------------------------------------------------------
(* The steps of download(url, save_to) *)

Raise(p, e) ==
  /\ exc' = [exc EXCEPT ![p] = e]
  /\ pc' = [pc EXCEPT ![p] = "except"]

\* line 29: a thread enters download
Call(p) ==
  /\ p \in threads
  /\ pc[p] = "idle"
  /\ \E u \in { x.url : x \in web }, s \in Paths :
       /\ url' = [url EXCEPT ![p] = u]
       /\ save_to' = [save_to EXCEPT ![p] = s]
  /\ pc' = [pc EXCEPT ![p] = "get"]
  /\ UNCHANGED <<crop_resize, threads, web, pillowCleans, fs, fs0, response,
                 pil_image, geom, mk, mkerr, created, exc, ret>>

\* line 44: response = requests.get(url)
Get(p) ==
  /\ pc[p] = "get"
  /\ \E x \in web :
       /\ x.url = url[p]
       /\ IF x.ok
          THEN /\ response' = [response EXCEPT ![p] = x.response]
               /\ pc' = [pc EXCEPT ![p] = "check"]
               /\ UNCHANGED exc
          ELSE /\ Raise(p, "ConnectionError")
               /\ UNCHANGED response
  /\ UNCHANGED <<crop_resize, threads, web, pillowCleans, fs, fs0, url, save_to,
                 pil_image, geom, mk, mkerr, created, ret>>

\* lines 48-49
Check(p) ==
  /\ pc[p] = "check"
  /\ IF Rejected(response[p])
     THEN /\ ret' = [ret EXCEPT ![p] = FALSE]
          /\ pc' = [pc EXCEPT ![p] = "done"]
     ELSE /\ pc' = [pc EXCEPT ![p] = "open"]
          /\ UNCHANGED ret
  /\ UNCHANGED <<crop_resize, threads, web, pillowCleans, fs, fs0, url, save_to,
                 response, pil_image, geom, mk, mkerr, created, exc>>

\* line 52: pil_image = Image.open(io.BytesIO(response.content)).convert("RGB")
Open(p) ==
  /\ pc[p] = "open"
  /\ IF Decodable(response[p].content)
     THEN /\ pil_image' = [pil_image EXCEPT ![p] = Convert(response[p].content, "RGB")]
          /\ pc' = [pc EXCEPT ![p] = "resize"]
          /\ UNCHANGED exc
     ELSE /\ Raise(p, "UnidentifiedImageError")
          /\ UNCHANGED pil_image
  /\ UNCHANGED <<crop_resize, threads, web, pillowCleans, fs, fs0, url, save_to,
                 response, geom, mk, mkerr, created, ret>>

\* lines 56-76, then line 79 evaluates os.path.dirname(save_to)
Resize(p) ==
  /\ pc[p] = "resize"
  /\ IF ShouldResize(crop_resize)
     THEN LET g == Geometry(pil_image[p].w, pil_image[p].h, crop_resize)
          IN /\ geom' = [geom EXCEPT ![p] = g]
             /\ IF ResizeFails(g)
                THEN /\ Raise(p, "ValueError")
                     /\ UNCHANGED <<pil_image, mk>>
                ELSE /\ pil_image' = [pil_image EXCEPT ![p] = Cropped(pil_image[p], g)]
                     /\ pc' = [pc EXCEPT ![p] = "makedirs"]
                     /\ mk' = [mk EXCEPT ![p] = Len(Dirname(save_to[p]))]
                     /\ UNCHANGED exc
     ELSE /\ pc' = [pc EXCEPT ![p] = "makedirs"]
          /\ mk' = [mk EXCEPT ![p] = Len(Dirname(save_to[p]))]
          /\ UNCHANGED <<geom, pil_image, exc>>
  /\ UNCHANGED <<crop_resize, threads, web, pillowCleans, fs, fs0, url, save_to,
                 response, mkerr, created, ret>>

\* line 79, os.makedirs: "if head and tail and not path.exists(head)" for the
\* prefix of length mk; the recursion goes to the head while it is absent
MakedirsCheck(p) ==
  /\ pc[p] = "makedirs"
  /\ LET name == Prefix(Dirname(save_to[p]), mk[p])
     IN IF Len(name) > 1 /\ ~Exists(fs, Front(name))
        THEN /\ mk' = [mk EXCEPT ![p] = mk[p] - 1]
             /\ UNCHANGED pc
        ELSE /\ pc' = [pc EXCEPT ![p] = "mkdir"]
             /\ UNCHANGED mk
  /\ UNCHANGED <<crop_resize, threads, web, pillowCleans, fs, fs0, url, save_to,
                 response, pil_image, geom, mkerr, created, exc, ret>>

\* line 79, os.makedirs: the return from the makedirs of the prefix of
\* length mk to its caller, which makes the next longer prefix, or to
\* download
MakedirsReturn(p) ==
  IF mk[p] < Len(Dirname(save_to[p]))
  THEN /\ mk' = [mk EXCEPT ![p] = mk[p] + 1]
       /\ pc' = [pc EXCEPT ![p] = "mkdir"]
  ELSE /\ pc' = [pc EXCEPT ![p] = "save"]
       /\ UNCHANGED mk

\* line 79, os.makedirs: os.mkdir of the prefix of length mk
Mkdir(p) ==
  /\ pc[p] = "mkdir"
  /\ LET name == Prefix(Dirname(save_to[p]), mk[p])
         e    == MkdirError(fs, name)
     IN IF e = "none"
        THEN /\ fs' = [fs EXCEPT ![name] = DirE]
             /\ MakedirsReturn(p)
             /\ UNCHANGED mkerr
        ELSE /\ mkerr' = [mkerr EXCEPT ![p] = e]
             /\ pc' = [pc EXCEPT ![p] = "isdir"]
             /\ UNCHANGED <<fs, mk>>
  /\ UNCHANGED <<crop_resize, threads, web, pillowCleans, fs0, url, save_to,
                 response, pil_image, geom, created, exc, ret>>

\* line 79, os.makedirs: "except OSError: if not exist_ok or not
\* path.isdir(name): raise", and the "except FileExistsError: pass" of the
\* caller
Isdir(p) ==
  /\ pc[p] = "isdir"
  /\ LET dir  == Dirname(save_to[p])
         name == Prefix(dir, mk[p])
     IN IF Tolerated(fs, name) \/ Swallowed(mkerr[p], mk[p], Len(dir))
        THEN /\ MakedirsReturn(p)
             /\ UNCHANGED exc
        ELSE /\ Raise(p, mkerr[p])
             /\ UNCHANGED mk
  /\ UNCHANGED <<crop_resize, threads, web, pillowCleans, fs, fs0, url, save_to,
                 response, pil_image, geom, mkerr, created, ret>>

\* line 80, Image.save: the format from the extension, then whether the file
\* is there
SaveBegin(p) ==
  /\ pc[p] = "save"
  /\ IF Format(Ext(save_to[p])) = ""
     THEN /\ Raise(p, "ValueError")
          /\ UNCHANGED created
     ELSE /\ created' = [created EXCEPT ![p] = ~Exists(fs, save_to[p])]
          /\ pc' = [pc EXCEPT ![p] = "save_open"]
          /\ UNCHANGED exc
  /\ UNCHANGED <<crop_resize, threads, web, pillowCleans, fs, fs0, url, save_to,
                 response, pil_image, geom, mk, mkerr, ret>>

\* line 80, Image.save: open(filename, "w+b") creates or empties the file
SaveOpen(p) ==
  /\ pc[p] = "save_open"
  /\ LET e == OpenError(fs, save_to[p])
     IN IF e = "none"
        THEN /\ fs' = [fs EXCEPT ![save_to[p]] = EmptyFile]
             /\ pc' = [pc EXCEPT ![p] = "save_write"]
             /\ UNCHANGED exc
        ELSE /\ Raise(p, e)
             /\ UNCHANGED fs
  /\ UNCHANGED <<crop_resize, threads, web, pillowCleans, fs0, url, save_to,
                 response, pil_image, geom, mk, mkerr, created, ret>>

\* line 80, Image.save: the encoder writes the file, or fails; Image.save
\* then removes the file if it created it (and this Pillow does so)
SaveWrite(p) ==
  /\ pc[p] = "save_write"
  /\ IF Encodes(Format(Ext(save_to[p])), pil_image[p].mode)
     THEN /\ fs' = [fs EXCEPT ![save_to[p]] = FileOf(pil_image[p])]
          /\ pc' = [pc EXCEPT ![p] = "return"]
          /\ UNCHANGED exc
     ELSE /\ IF pillowCleans /\ created[p]
             THEN /\ pc' = [pc EXCEPT ![p] = "save_remove"]
                  /\ UNCHANGED exc
             ELSE Raise(p, "OSError")
          /\ UNCHANGED fs
  /\ UNCHANGED <<crop_resize, threads, web, pillowCleans, fs0, url, save_to,
                 response, pil_image, geom, mk, mkerr, created, ret>>

\* line 80, Image.save: os.remove(filename) after the encoder failed, then
\* the error of the encoder is raised again; an error of os.remove other
\* than PermissionError takes its place
SaveRemove(p) ==
  /\ pc[p] = "save_remove"
  /\ LET e == RemoveError(fs, save_to[p])
     IN IF e = "none"
        THEN /\ fs' = AfterFailedWrite(fs, save_to[p], created[p], pillowCleans)
             /\ Raise(p, "OSError")
        ELSE /\ Raise(p, e)
             /\ UNCHANGED fs
  /\ UNCHANGED <<crop_resize, threads, web, pillowCleans, fs0, url, save_to,
                 response, pil_image, geom, mk, mkerr, created, ret>>

\* line 82: return True
Return(p) ==
  /\ pc[p] = "return"
  /\ ret' = [ret EXCEPT ![p] = SuccessValue]
  /\ pc' = [pc EXCEPT ![p] = "done"]
  /\ UNCHANGED <<crop_resize, threads, web, pillowCleans, fs, fs0, url, save_to,
                 response, pil_image, geom, mk, mkerr, created, exc>>

\* lines 84-85: except Exception: return False
Except(p) ==
  /\ pc[p] = "except"
  /\ IF Catches(exc[p])
     THEN /\ ret' = [ret EXCEPT ![p] = FALSE]
          /\ pc' = [pc EXCEPT ![p] = "done"]
     ELSE /\ pc' = [pc EXCEPT ![p] = "raised"]
          /\ UNCHANGED ret
  /\ UNCHANGED <<crop_resize, threads, web, pillowCleans, fs, fs0, url, save_to,
                 response, pil_image, geom, mk, mkerr, created, exc>>

Next ==
  \E p \in Procs :
    \/ Call(p)
    \/ Get(p)
    \/ Check(p)
    \/ Open(p)
    \/ Resize(p)
    \/ MakedirsCheck(p)
    \/ Mkdir(p)
    \/ Isdir(p)
    \/ SaveBegin(p)
    \/ SaveOpen(p)
    \/ SaveWrite(p)
    \/ SaveRemove(p)
    \/ Return(p)
    \/ Except(p)

Spec == Init /\ [][Next]_vars
SpecConc == InitConc /\ [][Next]_vars

----------------------------------------------------------------------------
(* Properties *)

Done(p) == pc[p] = "done"
Fetched(p) == response[p] # NoResponse
\* the file at save_to is what it was before the call
Untouched(p) == fs[save_to[p]] = fs0[save_to[p]]
\* line 52 has been reached
Decoding(p) ==
  pc[p] = "open" \/ pil_image[p] # NoImage \/ exc[p] = "UnidentifiedImageError"
\* lines 57-73 have been run
Transformed(p) == geom[p] # NoGeom
SrcW(p) == response[p].content.w
SrcH(p) == response[p].content.h

\* C1: download never lets an error out: no call ends with an exception
\* raised to the caller, and every call that met a failure (no answer, a
\* status other than 200, the sentinel, an undecodable body, an error of the
\* directory or the file, an encoder error) has returned False.
C1_NoErrorPropagates ==
  \A p \in Procs :
    /\ pc[p] # "raised"
    /\ (Done(p) /\ (exc[p] # "none"
                    \/ (Fetched(p) /\ (response[p].status_code # 200
                                       \/ Contains(Sentinel, response[p].url)))))
         => ret[p] = FALSE

\* C1 witness: a call that failed in the encoder has returned False
C1_Witness ==
  \E p \in Procs : Done(p) /\ exc[p] = "OSError" /\ ret[p] = FALSE

\* C2: a response with a status other than 200, or with "removed.png" in its
\* final url, or with a body that is no image, makes download return False
\* with the file at save_to untouched; and the body is decoded only after the
\* status and the url have passed.
C2_RejectedNothingWritten ==
  \A p \in Procs :
    /\ Decoding(p) => (response[p].status_code = 200
                       /\ ~Contains(Sentinel, response[p].url))
    /\ (Done(p) /\ Fetched(p)
        /\ (\/ response[p].status_code # 200
            \/ Contains(Sentinel, response[p].url)
            \/ response[p].content = Corrupt))
         => (ret[p] = FALSE /\ Untouched(p))

\* C2 witness: a 200 answer redirected to removed.png was turned down
C2_Witness ==
  \E p \in Procs : Done(p) /\ response[p].status_code = 200
                   /\ Contains(Sentinel, response[p].url)
                   /\ response[p].content # Corrupt /\ ret[p] = FALSE

\* C3: a call that returns True with crop_resize > 0 has written an image of
\* crop_resize x crop_resize pixels at save_to.
C3_SquareOutput ==
  \A p \in Procs :
    (Done(p) /\ ret[p] /\ crop_resize > 0)
      => /\ fs[save_to[p]].kind = "file"
         /\ fs[save_to[p]].w = crop_resize
         /\ fs[save_to[p]].h = crop_resize

\* C3 witness: a source that is not square was saved with crop_resize > 0
C3_Witness ==
  \E p \in Procs : Done(p) /\ ret[p] /\ crop_resize > 0 /\ SrcW(p) # SrcH(p)
                   /\ SrcW(p) # crop_resize

\* C4: with crop_resize <= 0 no resize and no crop is computed, and a call
\* that returns True has written an image of the size of the decoded source.
C4_NoTransform ==
  \A p \in Procs :
    crop_resize <= 0
      => /\ geom[p] = NoGeom
         /\ (Done(p) /\ ret[p])
              => /\ fs[save_to[p]].kind = "file"
                 /\ fs[save_to[p]].w = SrcW(p)
                 /\ fs[save_to[p]].h = SrcH(p)

\* C4 witness: a call with crop_resize = 0 saved a source that is not square
C4_Witness ==
  \E p \in Procs : Done(p) /\ ret[p] /\ crop_resize = 0 /\ SrcW(p) # SrcH(p)

\* C5 as claimed: every call that returns False has left the file at save_to
\* as it was, also one that fails while the image is encoded and written.
C5_Original ==
  \A p \in Procs : (Done(p) /\ ~ret[p]) => Untouched(p)

\* C5 amended: every call that returns False for another reason than a
\* failure of the encoder after Image.save opened the file has left the file
\* at save_to as it was.
C5_FalseBeforeWrite ==
  \A p \in Procs : (Done(p) /\ ~ret[p] /\ exc[p] # "OSError") => Untouched(p)

\* C5 witness: Image.save refused the extension of save_to before opening it
C5_Witness ==
  \E p \in Procs : Done(p) /\ ~ret[p] /\ exc[p] = "ValueError"
                   /\ Format(Ext(save_to[p])) = ""

\* C6: a call returns True only if the answer had status 200 and a final url
\* without "removed.png", the body was decoded and is in mode RGB, the
\* directory of save_to exists and the image is the file at save_to.
C6_TrueOnlyIfAllSteps ==
  \A p \in Procs :
    (Done(p) /\ ret[p])
      => /\ response[p].status_code = 200
         /\ ~Contains(Sentinel, response[p].url)
         /\ response[p].content # Corrupt
         /\ pil_image[p].mode = "RGB"
         /\ IsDir(fs, Dirname(save_to[p]))
         /\ fs[save_to[p]] = FileOf(pil_image[p])

\* C6 witness: an RGBA source was saved and True returned
C6_Witness ==
  \E p \in Procs : Done(p) /\ ret[p] /\ response[p].content.mode = "RGBA"

\* nothing in the filesystem before the call stands in the way of save_to
Unobstructed(p) ==
  /\ fs0[save_to[p]].kind # "dir"
  /\ \A k \in 1..(Len(save_to[p]) - 1) : fs0[Prefix(save_to[p], k)].kind # "file"

\* C7 as claimed: for every save_to, with a directory component or without,
\* the directory step raises nothing, so that a call whose fetch, checks,
\* decoding and writing succeed returns True.
C7_DirectoryStepNeverFails ==
  \A p \in Procs :
    (Done(p) /\ Fetched(p) /\ response[p].status_code = 200
     /\ ~Contains(Sentinel, response[p].url) /\ response[p].content # Corrupt
     /\ Format(Ext(save_to[p])) = "JPEG" /\ Unobstructed(p))
      => ret[p] = TRUE

----------------------------------------------------------------------------
(* Calls from two threads *)

\* a is b or one of the directories above b
IsPrefix(a, b) == Len(a) <= Len(b) /\ Prefix(b, Len(a)) = a

\* the file at a path: none where there is nothing or a directory
FileAt(f, path) == IF f[path].kind = "file" THEN f[path] ELSE AbsentE

\* what lines 44-76 of the call of p give, the answer of the host being the
\* one p got: the image to save, or NoImage when they end the call
AloneImage(p) ==
  IF ~Fetched(p) \/ Rejected(response[p]) \/ ~Decodable(response[p].content)
  THEN NoImage
  ELSE LET img == Convert(response[p].content, "RGB")
           g   == Geometry(img.w, img.h, crop_resize)
       IN IF ~ShouldResize(crop_resize) THEN img
          ELSE IF ResizeFails(g) THEN NoImage
          ELSE Cropped(img, g)

\* the call of p run alone on the filesystem fs0: the value it returns and
\* the file it leaves at save_to
Alone(p) ==
  IF AloneImage(p) = NoImage
  THEN [ret |-> FALSE, file |-> FileAt(fs0, save_to[p])]
  ELSE LET m == Makedirs(fs0, Dirname(save_to[p]))
           s == Save(m.fs, save_to[p], AloneImage(p), pillowCleans)
       IN IF m.err # "none"
          THEN [ret |-> FALSE, file |-> FileAt(m.fs, save_to[p])]
          ELSE [ret |-> (s.err = "none"), file |-> FileAt(s.fs, save_to[p])]

AsAlone(p) ==
  /\ ret[p] = Alone(p).ret
  /\ FileAt(fs, save_to[p]) = Alone(p).file

BothDone == \A p \in Procs : Done(p)

C8_OriginalState ==
  (BothDone /\ save_to[1] # save_to[2]) => \A p \in Procs : AsAlone(p)

C8_AmendedState ==
  (BothDone /\ ~IsPrefix(save_to[1], save_to[2]) /\ ~IsPrefix(save_to[2], save_to[1]))
    => \A p \in Procs : AsAlone(p)

\* C8 as claimed: two calls with different save_to, interleaved in any way,
\* each return what they return alone and leave at their save_to the file
\* they leave alone; and no step changes crop_resize.
C8_Original ==
  []C8_OriginalState /\ [][crop_resize' = crop_resize]_vars

\* C8 amended: the same for two calls neither of whose save_to is the other's
\* or a directory above the other's.
C8_NoInterference ==
  []C8_AmendedState /\ [][crop_resize' = crop_resize]_vars

\* C8 witness: a thread went down to make a directory that was absent, and
\* the other thread, saving elsewhere under it, has made it meanwhile
C8_Witness ==
  \E p \in Procs, q \in Procs :
    /\ pc[p] = "mkdir" /\ mk[p] < Len(Dirname(save_to[p]))
    /\ Exists(fs, Prefix(Dirname(save_to[p]), mk[p]))
    /\ q # p /\ pc[q] \notin {"idle", "get"}
    /\ ~IsPrefix(save_to[p], save_to[q]) /\ ~IsPrefix(save_to[q], save_to[p])

----------------------------------------------------------------------------
(* The geometry of lines 57-76 *)

\* the box the claim gives a landscape source whose resized width is nw
LandscapeBox(nw, T) ==
  << (nw - T) \div 2, 0, ((nw - T) \div 2) + T, T >>

\* the two cases worked out in the specification
Examples(p) ==
  /\ (SrcW(p) = 800 /\ SrcH(p) = 600 /\ crop_resize = 512)
       => /\ geom[p].new_width = 683 /\ geom[p].new_height = 512
          /\ geom[p].box = <<85, 0, 597, 512>>
  /\ (SrcW(p) = 400 /\ SrcH(p) = 600 /\ crop_resize = 512)
       => /\ geom[p].new_width = 512 /\ geom[p].new_height = 768
          /\ geom[p].box = <<0, 128, 512, 640>>

PortraitAndSquare(p) ==
  /\ SrcH(p) > SrcW(p) => (geom[p].box[1] = 0 /\ geom[p].box[3] = crop_resize)
  /\ SrcH(p) = SrcW(p) => (geom[p].box[1] = 0 /\ geom[p].box[2] = 0)

\* C9 as claimed: with newW the rounding (ties to even, or ties up) of the
\* exact quotient w*T/min(w,h), a landscape source gets the box
\* [floor((newW-T)/2), 0, floor((newW-T)/2)+T, T], a portrait source a box
\* with left = 0 and right = T, a square source left = 0 and top = 0; and
\* 800x600 and 400x600 with T = 512 give the boxes of the specification.
C9_Original ==
  \A p \in Procs :
    Transformed(p)
      => /\ SrcW(p) > SrcH(p)
              => geom[p].box \in
                   { LandscapeBox(RoundHalfEven(SrcW(p) * crop_resize, SrcH(p)), crop_resize),
                     LandscapeBox(RoundHalfUp(SrcW(p) * crop_resize, SrcH(p)), crop_resize) }
         /\ PortraitAndSquare(p)
         /\ Examples(p)

\* C9 amended: the same with newW = round(w * scale), the product taken in
\* double precision with scale = T / float(min(w, h)) rounded first, as
\* lines 59-63 compute it.
C9_CropBox ==
  \A p \in Procs :
    Transformed(p)
      => /\ geom[p].new_width = RoundScaled(SrcW(p), crop_resize, Min(SrcW(p), SrcH(p)))
         /\ geom[p].new_height = RoundScaled(SrcH(p), crop_resize, Min(SrcW(p), SrcH(p)))
         /\ SrcW(p) > SrcH(p)
              => geom[p].box = LandscapeBox(geom[p].new_width, crop_resize)
         /\ PortraitAndSquare(p)
         /\ Examples(p)

\* C9 witness: 800x600 has been resized and boxed for crop_resize = 512
C9_Witness ==
  \E p \in Procs : Transformed(p) /\ SrcW(p) = 800 /\ SrcH(p) = 600
                   /\ crop_resize = 512 /\ pc[p] = "makedirs"

\* C10: for crop_resize > 0 the resized image has its shorter edge equal to
\* crop_resize and its longer edge at least crop_resize, the crop box lies
\* inside the resized image, and the margins left on the two sides of the
\* box differ by at most one pixel, along each axis.
C10_BoxInsideResized ==
  \A p \in Procs :
    Transformed(p)
      => LET nw == geom[p].new_width
             nh == geom[p].new_height
             b  == geom[p].box
         IN /\ Min(nw, nh) = crop_resize
            /\ Max(nw, nh) >= crop_resize
            /\ 0 <= b[1] /\ 0 <= b[2] /\ b[3] <= nw /\ b[4] <= nh
            /\ Abs(b[1] - (nw - b[3])) <= 1
            /\ Abs(b[2] - (nh - b[4])) <= 1

\* C10 witness: a portrait source whose resized height exceeds crop_resize by
\* an odd number of pixels, so that the two margins differ by one
C10_Witness ==
  \E p \in Procs : Transformed(p) /\ SrcH(p) > SrcW(p)
                   /\ (geom[p].new_height - crop_resize) % 2 = 1
                   /\ geom[p].box[2] + 1 = geom[p].new_height - geom[p].box[4]

====
